---------------------------- MODULE Spec2Model ----------------------------
(***************************************************************************)
(* Model of the script that src/nepali_unicode_typing.py injects into the  *)
(* page (the JavaScript between its <script> tags, lines 34-123): the key  *)
(* table keyToNep, the pure function romanToNepali, the binder             *)
(* setupNepaliTyping with the 'input' listener it attaches to every        *)
(* textarea, and the MutationObserver that re-runs the binder.             *)
(*                                                                         *)
(* A JavaScript string is a sequence of UTF-16 code units.  A code unit is *)
(* written here as a token: a printable ASCII character is itself ("a",    *)
(* "?", "\\" for the backslash), any other code unit is "U+XXXX"; the     *)
(* grave accent, which a TLA+ string cannot hold, is "U+0060".  The script *)
(* is held in a Python string that is not raw, so the Python source        *)
(* "\\u093E" is the JavaScript escape of the one code unit U+093E, and the  *)
(* Python source "\\\\" is the JavaScript literal of one backslash.          *)
(***************************************************************************)
EXTENDS Integers, Sequences, FiniteSets, TLC

VARIABLES
    \* ---- the document (parent.document) and its textareas
    inDocument,      \* the textareas attached to parent.document
    value,           \* textarea.value
    selectionStart,  \* textarea.selectionStart
    selectionEnd,    \* textarea.selectionEnd
    enabled,         \* textarea.hasAttribute('data-nepali-enabled')
    listeners,       \* per textarea: the isConverting flag of each 'input'
                     \* listener the binder attached, in attachment order
    \* ---- the injected script instances
    observing,       \* instances whose script ran (observer installed)
    pending,         \* observers with mutation records queued
    \* ---- the running task
    stack,           \* call stack: event dispatches and listener calls
    event,           \* <<>> or <<e>>: the native 'input' event of this turn
    notified,        \* what the listeners outside the binder received
    \* ---- calls of romanToNepali on their own
    input,           \* the argument
    once,            \* romanToNepali(input)
    twice,           \* romanToNepali(romanToNepali(input))
    calls            \* how many of the two calls were made

docVars  == <<inDocument, value, selectionStart, selectionEnd, enabled,
              listeners>>
jsVars   == <<observing, pending>>
taskVars == <<stack, event, notified>>
binderVars == <<docVars, jsVars, taskVars>>
callVars == <<input, once, twice, calls>>
vars == <<binderVars, callVars>>

---------------------------------------------------------------------------
(* Bounds of the model.                                                    *)

\* Longest string drawn over SampleChars as an argument of romanToNepali.
MaxLen == 3
\* Longest value a user edit leaves in a textarea.
MaxValueLen == 1

---------------------------------------------------------------------------
(* The table, lines 37-56, in source order: <<key, value>>, the value a    *)
(* JavaScript string.                                                      *)
KeyEntries ==
    << <<"a", <<"U+093E">> >>, <<"b", <<"U+092C">> >>, <<"c", <<"U+091B">> >>,
       <<"d", <<"U+0926">> >>, <<"e", <<"U+0947">> >>,
       <<"f", <<"U+0909">> >>, <<"g", <<"U+0917">> >>, <<"h", <<"U+0939">> >>,
       <<"i", <<"U+093F">> >>, <<"j", <<"U+091C">> >>,
       <<"k", <<"U+0915">> >>, <<"l", <<"U+0932">> >>, <<"m", <<"U+092E">> >>,
       <<"n", <<"U+0928">> >>, <<"o", <<"U+094B">> >>,
       <<"p", <<"U+092A">> >>, <<"q", <<"U+091F">> >>, <<"r", <<"U+0930">> >>,
       <<"s", <<"U+0938">> >>, <<"t", <<"U+0924">> >>,
       <<"u", <<"U+0941">> >>, <<"v", <<"U+0935">> >>, <<"w", <<"U+094C">> >>,
       <<"x", <<"U+0921">> >>, <<"y", <<"U+092F">> >>,
       <<"z", <<"U+0937">> >>,
       <<"A", <<"U+0906">> >>, <<"B", <<"U+092D">> >>, <<"C", <<"U+091A">> >>,
       <<"D", <<"U+0927">> >>, <<"E", <<"U+0948">> >>,
       <<"F", <<"U+090A">> >>, <<"G", <<"U+0918">> >>, <<"H", <<"U+0905">> >>,
       <<"I", <<"U+0940">> >>, <<"J", <<"U+091D">> >>,
       <<"K", <<"U+0916">> >>, <<"L", <<"U+0933">> >>, <<"M", <<"U+0902">> >>,
       <<"N", <<"U+0923">> >>, <<"O", <<"U+0913">> >>,
       <<"P", <<"U+092B">> >>, <<"Q", <<"U+0920">> >>, <<"R", <<"U+0943">> >>,
       <<"S", <<"U+0936">> >>, <<"T", <<"U+0925">> >>,
       <<"U", <<"U+0942">> >>, <<"V", <<"U+0901">> >>, <<"W", <<"U+0914">> >>,
       <<"X", <<"U+0922">> >>, <<"Y", <<"U+091E">> >>,
       <<"Z", <<"U+090B">> >>,
       <<"0", <<"U+0966">> >>, <<"1", <<"U+0967">> >>, <<"2", <<"U+0968">> >>,
       <<"3", <<"U+0969">> >>, <<"4", <<"U+096A">> >>,
       <<"5", <<"U+096B">> >>, <<"6", <<"U+096C">> >>, <<"7", <<"U+096D">> >>,
       <<"8", <<"U+096E">> >>, <<"9", <<"U+096F">> >>,
       <<"U+0060", <<"U+093D">> >>, <<"~", <<"U+093C">> >>, <<"_", <<"U+0952">> >>,
       <<"+", <<"U+200C">> >>, <<"=", <<"U+200D">> >>,
       <<"[", <<"U+0907">> >>, <<"{", <<"U+0908">> >>, <<"]", <<"U+090F">> >>,
       <<"}", <<"U+0910">> >>,
       <<"\\", <<"U+0950">> >>, <<"|", <<"U+0903">> >>, <<"<", <<"U+0919">> >>,
       <<".", <<"U+0964">> >>, <<">", <<"U+0965">> >>,
       <<"/", <<"U+094D">> >>, <<"?", <<"?">> >> >>

\* The object an object literal with these entries builds: one property per
\* distinct key, and of two entries with the same key the later one.
ObjectLiteral(entries) ==
    [c \in {entries[j][1] : j \in DOMAIN entries} |->
        LET last == CHOOSE j \in DOMAIN entries :
                        /\ entries[j][1] = c
                        /\ \A h \in DOMAIN entries : entries[h][1] = c => h <= j
        IN  entries[last][2]]

\* Mutants of the table: "s" carries its halant; "~" is given the value of
\* the key next to it, the grave accent itself.
keyToNepHalant ==
    ObjectLiteral(KeyEntries \o << <<"s", <<"U+0938", "U+094D">> >> >>)

keyToNepTypo ==
    ObjectLiteral(KeyEntries \o << <<"~", <<"U+0060">> >> >>)

\* Mutant of the table: the last entry, which maps "?" to itself and so
\* changes no result of romanToNepali, is left out.
keyToNepNoQuestion ==
    ObjectLiteral(SubSeq(KeyEntries, 1, Len(KeyEntries) - 1))

\* const keyToNep = { ... }, line 37.
keyToNep == ObjectLiteral(KeyEntries)

\* The Latin letters, lower case and upper case in the same order.
LowerCase == <<"a", "b", "c", "d", "e", "f", "g", "h", "i", "j", "k", "l",
               "m", "n", "o", "p", "q", "r", "s", "t", "u", "v", "w", "x",
               "y", "z">>
UpperCase == <<"A", "B", "C", "D", "E", "F", "G", "H", "I", "J", "K", "L",
               "M", "N", "O", "P", "Q", "R", "S", "T", "U", "V", "W", "X",
               "Y", "Z">>
\* char.toLowerCase() for a code unit of the model.
ToLowerCase(char) ==
    IF \E i \in DOMAIN UpperCase : UpperCase[i] = char
    THEN LowerCase[CHOOSE i \in DOMAIN UpperCase : UpperCase[i] = char]
    ELSE char

\* Mutant of the lookup: the key is folded to lower case first.
LookupCaseFolded(char) ==
    LET c == ToLowerCase(char)
    IN  IF c \in DOMAIN keyToNep /\ keyToNep[c] # <<>>
        THEN keyToNep[c]
        ELSE <<char>>

\* Mutant of the lookup: && written for ||.
LookupAnd(char) ==
    IF char \in DOMAIN keyToNep /\ keyToNep[char] # <<>> THEN <<char>>
    ELSE IF char \in DOMAIN keyToNep THEN keyToNep[char] ELSE <<char>>

\* keyToNep[char] || char, line 65: the property's value unless the property
\* is missing (undefined) or its value is the empty string, both falsy.  No
\* property that keyToNep inherits from Object.prototype has a name of one
\* code unit, so only its own properties are found.
Lookup(char) ==
    IF char \in DOMAIN keyToNep /\ keyToNep[char] # <<>>
    THEN keyToNep[char]
    ELSE <<char>>

\* The loop of romanToNepali, lines 62-66, from index i (0-based) on.
RECURSIVE romanToNepaliLoop(_, _, _)
romanToNepaliLoop(romanText, i, nepaliText) ==
    IF i < Len(romanText)
    THEN romanToNepaliLoop(romanText, i + 1,
                           nepaliText \o Lookup(romanText[i + 1]))
    ELSE nepaliText

\* Mutant: the loop starts at index 1.
romanToNepaliSkipFirst(romanText) ==
    IF romanText = <<>> THEN <<>>
    ELSE romanToNepaliLoop(romanText, 1, <<>>)

\* function romanToNepali(romanText), lines 59-68.
romanToNepali(romanText) ==
    IF romanText = <<>> THEN <<>>
    ELSE romanToNepaliLoop(romanText, 0, <<>>)

---------------------------------------------------------------------------
(* Arguments on which romanToNepali is called on its own.                  *)

Keys == DOMAIN keyToNep
\* The code units that occur in the values of the table.
Values == UNION {{keyToNep[k][j] : j \in DOMAIN keyToNep[k]} : k \in Keys}
\* Code units that are no key and no value: space, '!', ',', '-', line
\* feed, a CJK ideograph, a surrogate pair, a Devanagari letter the table
\* never produces, and the null character.
OtherChars == {" ", "!", ",", "-", "U+000A", "U+4E2D", "U+D83D", "U+DE00",
               "U+0904", "U+0000"}
Chars == Keys \cup Values \cup OtherChars
\* Strings of every length up to MaxLen are drawn over these.
SampleChars == {"k", "s", "?", "+", " ", "U+0915", "U+200C"}

StringsOver(alphabet, n) ==
    UNION {[1..m -> alphabet] : m \in 0..n}

namaste == <<"n", "a", "m", "a", "s", "t", "e">>
\* The concrete cases of the specification, section 8, and of its binder
\* scenario.
SpecCases == {namaste, <<"K">>, <<"1", "2", "3">>, <<"?">>,
              <<"a", "1", "?">>, <<"k", "s">>}

Inputs == StringsOver(Chars, 1) \cup StringsOver(SampleChars, MaxLen)
          \cup SpecCases

---------------------------------------------------------------------------
(* The page: the textareas that may be in parent.document, the instances   *)
(* of the script (one per call of inject_custom_keyboard, line 178), and   *)
(* what a user may leave in a textarea by one edit.                        *)

Surfaces == {"textarea1", "textarea2"}
Scripts == {"script1", "script2"}

\* A key that romanToNepali changes and one that it leaves as it is.
TypedChars == {"k", "?"}
\* The values an edit (typing, paste, deletion) may leave: every string up
\* to MaxValueLen, and the value of the specification's binder scenario.
EditValues == StringsOver(TypedChars, MaxValueLen) \cup {<<"k", "s">>}

Min(a, b) == IF a <= b THEN a ELSE b
Max(a, b) == IF a >= b THEN a ELSE b

BinderInit ==
    /\ inDocument = {}
    /\ value = [s \in Surfaces |-> <<>>]
    /\ selectionStart = [s \in Surfaces |-> 0]
    /\ selectionEnd = [s \in Surfaces |-> 0]
    /\ enabled = [s \in Surfaces |-> FALSE]
    /\ listeners = [s \in Surfaces |-> <<>>]
    /\ observing = {}
    /\ pending = {}
    /\ stack = <<>>
    /\ event = <<>>
    /\ notified = <<>>

\* No task is running: the event loop is between two tasks.
Idle == stack = <<>> /\ event = <<>>

---------------------------------------------------------------------------
(* setupNepaliTyping, lines 71-108.                                        *)

\* Mutant: querySelector, which finds the first textarea only.
querySelectorFirst ==
    IF inDocument = {} THEN {} ELSE {CHOOSE s \in inDocument : TRUE}

\* parent.document.querySelectorAll('textarea'), line 72: the textareas
\* attached to the document.
querySelectorAll == inDocument

\* Mutant: the check of the marker is dropped.
hasAttributeNever(textarea) == FALSE

\* textarea.hasAttribute('data-nepali-enabled'), line 76.
hasAttribute(textarea) == enabled[textarea]

\* Mutant: the marker is set under another name than the one line 76
\* looks for.
setAttributeOtherName(textarea) == enabled[textarea]

\* Whether textarea carries 'data-nepali-enabled' after
\* textarea.setAttribute('data-nepali-enabled', 'true'), line 77.
setAttribute(textarea) == TRUE

\* The forEach of lines 74-107 over the textareas found: one that carries
\* the marker is left alone; any other gets the marker (line 77) and a new
\* listener whose isConverting is false (lines 79, 82).
setupNepaliTyping ==
    /\ enabled' = [s \in Surfaces |->
                     IF s \in querySelectorAll /\ ~hasAttribute(s)
                     THEN setAttribute(s) ELSE enabled[s]]
    /\ listeners' = [s \in Surfaces |->
                       IF s \in querySelectorAll /\ ~hasAttribute(s)
                       THEN Append(listeners[s], FALSE) ELSE listeners[s]]

---------------------------------------------------------------------------
(* The script's top level, lines 110-122, and the document around it.      *)

\* Mutant: the observers are installed with attributes: true as well, so a
\* pass that sets a marker queues a record for each of them.
ownRecordsAttributes ==
    IF \E s \in querySelectorAll : ~hasAttribute(s) THEN observing ELSE {}

\* The observers for which a discovery pass queues a record by what it does
\* to the document itself.  The observers watch childList and subtree only
\* (lines 119-122) and the pass sets an attribute (line 77) and adds a
\* listener (line 82), neither a change of a child list: none.
ownRecords == {}

\* One instance of the script runs: the initial scan (line 111), then the
\* observer is created and installed on parent.document.body with
\* childList and subtree (lines 115-122).
RunScript(k) ==
    /\ Idle /\ pending = {}
    /\ k \notin observing
    /\ setupNepaliTyping
    /\ observing' = observing \cup {k}
    /\ pending' = pending \cup ownRecords
    /\ UNCHANGED <<inDocument, value, selectionStart, selectionEnd,
                   taskVars, callVars>>

\* The page adds a textarea somewhere under body, or removes one: a
\* childList mutation in the subtree, which queues a record for every
\* installed observer (lines 119-122).  A removed textarea keeps its
\* attributes, listeners and value, and may be inserted again.
AddSurface(s) ==
    /\ Idle
    /\ s \notin inDocument
    /\ inDocument' = inDocument \cup {s}
    /\ pending' = observing
    /\ UNCHANGED <<value, selectionStart, selectionEnd, enabled, listeners,
                   observing, taskVars, callVars>>

RemoveSurface(s) ==
    /\ Idle
    /\ s \in inDocument
    /\ inDocument' = inDocument \ {s}
    /\ pending' = observing
    /\ UNCHANGED <<value, selectionStart, selectionEnd, enabled, listeners,
                   observing, taskVars, callVars>>

\* Mutant: a callback that finds no textarea disconnects its observer.
afterCallbackDisconnect(k) ==
    IF querySelectorAll = {} THEN observing \ {k} ELSE observing

\* The observers installed after the callback of observer k, lines
\* 115-117: the callback calls setupNepaliTyping and nothing else, so the
\* observer is never disconnected.
afterCallback(k) == observing

\* The callback of an observer with queued records, lines 115-117.  It runs
\* as a microtask, so before any later task (RunScript, NativeInput).
ObserverCallback(k) ==
    /\ Idle
    /\ k \in pending
    /\ setupNepaliTyping
    /\ pending' = (pending \ {k}) \cup ownRecords
    /\ observing' = afterCallback(k)
    /\ UNCHANGED <<inDocument, value, selectionStart, selectionEnd,
                   taskVars, callVars>>

---------------------------------------------------------------------------
(* One turn of the event loop for a native 'input' event: the dispatch of  *)
(* the event on its target, the listener of lines 82-106, and the          *)
(* synthetic event the listener dispatches.  The turn runs to completion:  *)
(* while it runs (stack or event not empty) no other task starts.          *)
(*                                                                         *)
(* Frames of the call stack, the innermost last:                           *)
(*   [fn |-> "dispatchEvent", target, synthetic, next]                     *)
(*       an 'input' event being dispatched on target; next is the index of *)
(*       the next listener of the target to call;                          *)
(*   [fn |-> "listener", target, id, pc, originalValue, cursorPos,         *)
(*    nepaliText]                                                          *)
(*       a call of listener id of target, about to run line pc.            *)

Top == stack[Len(stack)]
Rest == SubSeq(stack, 1, Len(stack) - 1)
InListener(pc) == stack # <<>> /\ Top.fn = "listener" /\ Top.pc = pc
Goto(pc) == Append(Rest, [Top EXCEPT !.pc = pc])

\* Mutant: lines 98 and 102 are exchanged, the synthetic event is
\* dispatched before the caret is restored.
successorDispatchFirst(pc) ==
    CASE pc = "L95" -> "L102"
      [] pc = "L102" -> "L98"
      [] pc = "L98" -> "L105"

\* The statement that follows statement pc in the block of lines 94-105.
successor(pc) ==
    CASE pc = "L95" -> "L98"
      [] pc = "L98" -> "L102"
      [] pc = "L102" -> "L105"

\* The user edits textarea s (typing, paste, deletion, drop): the browser
\* leaves value v and the selection p..q, then dispatches 'input' on s.
NativeInput(s, v, p, q) ==
    /\ Idle /\ pending = {}
    /\ s \in inDocument
    /\ value' = [value EXCEPT ![s] = v]
    /\ selectionStart' = [selectionStart EXCEPT ![s] = p]
    /\ selectionEnd' = [selectionEnd EXCEPT ![s] = q]
    /\ event' = <<[target |-> s, value |-> v, selectionStart |-> p,
                   selectionEnd |-> q, transforms |-> 0, writes |-> 0]>>
    /\ stack' = <<[fn |-> "dispatchEvent", target |-> s,
                   synthetic |-> FALSE, next |-> 1]>>
    /\ notified' = <<>>
    /\ UNCHANGED <<inDocument, enabled, listeners, jsVars, callVars>>

\* The dispatch calls the next listener the binder attached to the target
\* (line 82).
InvokeListener ==
    /\ stack # <<>> /\ Top.fn = "dispatchEvent"
    /\ Top.next <= Len(listeners[Top.target])
    /\ stack' = Append(Rest, [Top EXCEPT !.next = @ + 1]) \o
                <<[fn |-> "listener", target |-> Top.target,
                   id |-> Top.next, pc |-> "L83", originalValue |-> <<>>,
                   cursorPos |-> 0, nepaliText |-> <<>>]>>
    /\ UNCHANGED <<docVars, jsVars, event, notified, callVars>>

\* After the target's listeners the event bubbles (bubbles: true, line 102;
\* a native 'input' event bubbles too) to the listeners outside the binder,
\* the page's framework, which receive the textarea as it is then.
Bubble ==
    /\ stack # <<>> /\ Top.fn = "dispatchEvent"
    /\ Top.next > Len(listeners[Top.target])
    /\ notified' = Append(notified,
                          [synthetic |-> Top.synthetic,
                           value |-> value[Top.target],
                           selectionStart |-> selectionStart[Top.target],
                           selectionEnd |-> selectionEnd[Top.target],
                           isConverting |-> listeners[Top.target]])
    /\ stack' = Rest
    /\ UNCHANGED <<docVars, jsVars, event, callVars>>

\* Mutant: the guard of line 83 is dropped.
isConvertingIgnored(f) == FALSE

\* isConverting of the closure the listener frame f runs in, line 83.
isConverting(f) == listeners[f.target][f.id]

\* Mutant: line 85 sets the flag of every listener, not that of its own
\* closure alone.
setGuardShared(f) ==
    [s \in Surfaces |-> [id \in DOMAIN listeners[s] |-> TRUE]]

\* isConverting = true, line 85, on the flag of the closure of f (line 79).
setGuard(f) == [listeners EXCEPT ![f.target][f.id] = TRUE]

\* Lines 83-85: return if the guard is set, else set it.
ListenerEnter ==
    /\ InListener("L83")
    /\ IF isConverting(Top)
       THEN /\ stack' = Rest
            /\ UNCHANGED listeners
       ELSE /\ listeners' = setGuard(Top)
            /\ stack' = Goto("L87")
    /\ UNCHANGED <<inDocument, value, selectionStart, selectionEnd, enabled,
                   jsVars, event, notified, callVars>>

\* Mutant: the comparison of line 94 is dropped, the value always written.
changedAlways(nepaliText, originalValue) == TRUE

\* Mutant: the comparison is inverted, a converted value never written.
changedNever(nepaliText, originalValue) == nepaliText = originalValue

\* nepaliText !== originalValue, line 94.
changed(nepaliText, originalValue) == nepaliText # originalValue

\* Mutant: the end of the selection is read for the caret.
readCaretEnd(textarea) == selectionEnd[textarea]

\* this.selectionStart, line 88.
readCaret(textarea) == selectionStart[textarea]

\* Lines 87-94: read the value and the caret, convert the whole value,
\* compare.
ListenerConvert ==
    /\ InListener("L87")
    /\ LET originalValue == value[Top.target]
           cursorPos == readCaret(Top.target)
           nepaliText == romanToNepali(originalValue)
       IN  stack' = Append(Rest,
                 [Top EXCEPT !.originalValue = originalValue,
                             !.cursorPos = cursorPos,
                             !.nepaliText = nepaliText,
                             !.pc = IF changed(nepaliText, originalValue)
                                    THEN "L95" ELSE "L105"])
    /\ event' = <<[event[1] EXCEPT !.transforms = @ + 1]>>
    /\ UNCHANGED <<docVars, jsVars, notified, callVars>>

\* The selection <<start, end>> that setSelectionRange(start, end) leaves in
\* a control whose value has len code units (HTML, "set the selection
\* range"): both are clamped to len, and an end before the start pulls the
\* start back to it.
SetSelectionRange(start, end, len) ==
    LET e == Min(end, len)
        s == Min(start, len)
    IN  IF e <= s THEN <<e, e>> ELSE <<s, e>>

\* The setters of selectionEnd and of selectionStart on the selection sel.
SetSelectionEnd(sel, len, v) == SetSelectionRange(sel[1], v, len)
SetSelectionStart(sel, len, v) == SetSelectionRange(v, Max(sel[2], v), len)

\* Line 95, this.value = nepaliText: a value that differs from the present
\* one replaces it and moves the selection to the end of the text.
ListenerWrite ==
    /\ InListener("L95")
    /\ LET t == Top.target
           new == Top.nepaliText
       IN  /\ value' = [value EXCEPT ![t] = new]
           /\ IF new # value[t]
              THEN /\ selectionStart' = [selectionStart EXCEPT ![t] = Len(new)]
                   /\ selectionEnd' = [selectionEnd EXCEPT ![t] = Len(new)]
              ELSE UNCHANGED <<selectionStart, selectionEnd>>
    /\ event' = <<[event[1] EXCEPT !.writes = @ + 1]>>
    /\ stack' = Goto(successor("L95"))
    /\ UNCHANGED <<inDocument, enabled, listeners, jsVars, notified,
                   callVars>>

\* Mutant: line 98 is missing, the selection stays where the write left it.
restoreCaretNot(sel, len, cursorPos) == sel

\* this.selectionStart = this.selectionEnd = cursorPos, line 98: the right
\* assignment is made first.
restoreCaret(sel, len, cursorPos) ==
    SetSelectionStart(SetSelectionEnd(sel, len, cursorPos), len, cursorPos)

ListenerCaret ==
    /\ InListener("L98")
    /\ LET t == Top.target
           sel == restoreCaret(<<selectionStart[t], selectionEnd[t]>>,
                               Len(value[t]), Top.cursorPos)
       IN  /\ selectionStart' = [selectionStart EXCEPT ![t] = sel[1]]
           /\ selectionEnd' = [selectionEnd EXCEPT ![t] = sel[2]]
    /\ stack' = Goto(successor("L98"))
    /\ UNCHANGED <<inDocument, value, enabled, listeners, jsVars, event,
                   notified, callVars>>

\* Line 102: this.dispatchEvent(new Event('input', { bubbles: true })), a
\* synchronous call.
ListenerDispatch ==
    /\ InListener("L102")
    /\ stack' = Goto(successor("L102")) \o
                <<[fn |-> "dispatchEvent", target |-> Top.target,
                   synthetic |-> TRUE, next |-> 1]>>
    /\ UNCHANGED <<docVars, jsVars, event, notified, callVars>>

\* Mutant: the guard is cleared inside the if block of lines 94-103.
clearGuardIfWritten(f) ==
    IF f.nepaliText # f.originalValue
    THEN [listeners EXCEPT ![f.target][f.id] = FALSE]
    ELSE listeners

\* isConverting = false, line 105.
clearGuard(f) == [listeners EXCEPT ![f.target][f.id] = FALSE]

\* Lines 105-106: clear the guard and return.
ListenerClear ==
    /\ InListener("L105")
    /\ listeners' = clearGuard(Top)
    /\ stack' = Rest
    /\ UNCHANGED <<inDocument, value, selectionStart, selectionEnd, enabled,
                   jsVars, event, notified, callVars>>

\* The dispatch of the native event has returned: the turn ends.
EndTurn ==
    /\ stack = <<>> /\ event # <<>>
    /\ event' = <<>>
    /\ notified' = <<>>
    /\ UNCHANGED <<docVars, jsVars, stack, callVars>>

---------------------------------------------------------------------------
(* Calls of romanToNepali on their own.                                    *)

Transliterate ==
    /\ calls = 0
    /\ once' = romanToNepali(input)
    /\ calls' = 1
    /\ UNCHANGED <<binderVars, input, twice>>

Retransliterate ==
    /\ calls = 1
    /\ twice' = romanToNepali(once)
    /\ calls' = 2
    /\ UNCHANGED <<binderVars, input, once>>

---------------------------------------------------------------------------
(* The specifications.                                                     *)

CallIdle == input = <<>> /\ once = <<>> /\ twice = <<>> /\ calls = 0

\* The page and the script.
Init == BinderInit /\ CallIdle

\* The page changes the document, a script instance runs, an observer is
\* called back.
Discovery ==
    \/ \E k \in Scripts : RunScript(k)
    \/ \E s \in Surfaces : AddSurface(s)
    \/ \E s \in Surfaces : RemoveSurface(s)
    \/ \E k \in Scripts : ObserverCallback(k)

\* The steps of a started turn.
Turn ==
    \/ InvokeListener
    \/ Bubble
    \/ ListenerEnter
    \/ ListenerConvert
    \/ ListenerWrite
    \/ ListenerCaret
    \/ ListenerDispatch
    \/ ListenerClear
    \/ EndTurn

\* An edit that leaves any selection p..q.
Edit ==
    \E s \in Surfaces, v \in EditValues :
        \E p \in 0..Len(v) : \E q \in p..Len(v) : NativeInput(s, v, p, q)

\* An edit that leaves a caret, as typing does.
Typing ==
    \E s \in Surfaces, v \in EditValues :
        \E p \in 0..Len(v) : NativeInput(s, v, p, p)

Next == Discovery \/ Edit \/ Turn

Spec == Init /\ [][Next]_vars

\* romanToNepali alone, on every argument of Inputs.
CallInit ==
    /\ BinderInit
    /\ input \in Inputs /\ once = <<>> /\ twice = <<>> /\ calls = 0

CallNext == Transliterate \/ Retransliterate

CallSpec == CallInit /\ [][CallNext]_vars

---------------------------------------------------------------------------
(* Claims about romanToNepali, checked under CallSpec.                     *)

\* C1: romanToNepali(s) has, for every s, at each place the value the table
\* gives for the character of s at that place when that character is a key
\* of the table, and that character itself otherwise, in the same order.
C1_Pointwise ==
    calls >= 1 =>
        /\ Len(once) = Len(input)
        /\ \A i \in DOMAIN input :
              IF input[i] \in Keys
              THEN <<once[i]>> = keyToNep[input[i]]
              ELSE once[i] = input[i]

C1_Witness ==
    /\ calls >= 1
    /\ input = <<"k", " ", "?">>
    /\ once = <<"U+0915", " ", "?">>

\* C2, as stated: romanToNepali("namaste") is the 8 code units U+0928
\* U+093E U+092E U+093E U+0938 U+094D U+0924 U+0947, with the halant
\* U+094D between the outputs of "s" and "t".
C2_Original ==
    (calls >= 1 /\ input = namaste) =>
        once = <<"U+0928", "U+093E", "U+092E", "U+093E", "U+0938", "U+094D",
                 "U+0924", "U+0947">>

\* C2, amended: romanToNepali("namaste") is the 7 code units U+0928 U+093E
\* U+092E U+093E U+0938 U+0924 U+0947, one per character of the argument
\* and no halant.
C2_Namaste ==
    (calls >= 1 /\ input = namaste) =>
        once = <<"U+0928", "U+093E", "U+092E", "U+093E", "U+0938", "U+0924",
                 "U+0947">>

C2_Witness == calls >= 1 /\ input = namaste /\ Len(once) = 7

\* C3: romanToNepali preserves the length: every value of the table is one
\* code unit, the zero-width values of "+" and "=" too, and a character
\* that is no key is passed through as one code unit.
C3_LengthPreserving ==
    /\ \A k \in Keys : Len(keyToNep[k]) = 1
    /\ calls >= 1 => Len(once) = Len(input)
    /\ calls = 2 => Len(twice) = Len(input)

C3_Witness ==
    /\ calls >= 1
    /\ input = <<"+", " ", "k">>
    /\ once = <<"U+200C", " ", "U+0915">>

\* C4: romanToNepali leaves a string of values of the table as it is, so
\* applying it twice is applying it once; no value of the table is a key
\* that maps to another character.
C4_Idempotent ==
    /\ \A c \in Values \cap Keys : keyToNep[c] = <<c>>
    /\ (calls >= 1 /\ \A i \in DOMAIN input : input[i] \in Values) =>
           once = input
    /\ calls = 2 => twice = once

C4_Witness ==
    /\ calls = 2
    /\ input = <<"k", "?", "+">>
    /\ once = <<"U+0915", "?", "U+200C">>
    /\ twice = once

---------------------------------------------------------------------------
(* Claims about the binder, checked under Spec.                            *)

\* The dispatch of the native event has returned and the turn is not yet
\* over: every listener pass the event caused has ended.
TurnEnd == stack = <<>> /\ event # <<>>
\* The native event of the running turn, and whether the binder attached a
\* listener to its target.
Native == event[1]
TargetBound == Len(listeners[Native.target]) >= 1
ListenerFrames == {i \in DOMAIN stack : stack[i].fn = "listener"}
SyntheticSeen == {i \in DOMAIN notified : notified[i].synthetic}

\* C5: a pass of the listener on a value v that romanToNepali changes, the
\* caret at p, ends with the value romanToNepali(v), the whole of v
\* converted, and with selectionStart = selectionEnd = p.
C5_ConvertingPass ==
    (TurnEnd /\ TargetBound
        /\ romanToNepali(Native.value) # Native.value) =>
        /\ value[Native.target] = romanToNepali(Native.value)
        /\ selectionStart[Native.target] = Native.selectionStart
        /\ selectionEnd[Native.target] = Native.selectionStart
        /\ Native.writes = 1

\* The binder scenario: "ks" with the caret at 2.
C5_Witness ==
    /\ TurnEnd /\ TargetBound
    /\ Native.value = <<"k", "s">>
    /\ Native.selectionStart = 2
    /\ value[Native.target] = <<"U+0915", "U+0938">>
    /\ selectionStart[Native.target] = 2
    /\ selectionEnd[Native.target] = 2

\* C6: a pass of the listener on a value v that romanToNepali leaves as it
\* is, the empty value among them, writes no value, leaves selectionStart
\* and selectionEnd as they were and dispatches no synthetic event, at any
\* point of the turn; it only sets and clears the guard.
C6_NoConversion ==
    (event # <<>> /\ TargetBound
        /\ romanToNepali(Native.value) = Native.value) =>
        /\ value[Native.target] = Native.value
        /\ selectionStart[Native.target] = Native.selectionStart
        /\ selectionEnd[Native.target] = Native.selectionEnd
        /\ Native.writes = 0
        /\ SyntheticSeen = {}
        /\ \A i \in DOMAIN stack :
              /\ stack[i].fn = "dispatchEvent" => ~stack[i].synthetic
              /\ stack[i].fn = "listener" =>
                    stack[i].pc \in {"L83", "L87", "L105"}
        /\ TurnEnd => /\ Native.transforms = 1
                      /\ \A i \in DOMAIN notified :
                            notified[i].isConverting = <<FALSE>>

\* A selection 0..1 over "?" is still there when the pass has ended.
C6_Witness ==
    /\ TurnEnd /\ TargetBound
    /\ Native.value = <<"?">>
    /\ Native.selectionStart = 0 /\ Native.selectionEnd = 1
    /\ Native.transforms = 1
    /\ selectionStart[Native.target] = 0
    /\ selectionEnd[Native.target] = 1

\* C7: the synthetic event dispatched in a converting pass calls the same
\* listener while its guard is set, and that nested call returns at line
\* 83: it reads, converts, writes and dispatches nothing.  So listener
\* calls nest at most 2 deep, at most one conversion is in progress per
\* textarea, and one native event causes at most one conversion.
C7_Reentrancy ==
    /\ Cardinality(ListenerFrames) <= 2
    /\ \A i \in ListenerFrames :
          (\E j \in ListenerFrames : j < i) =>
              /\ stack[i].pc = "L83"
              /\ listeners[stack[i].target][stack[i].id]
              /\ stack[i - 1].fn = "dispatchEvent" /\ stack[i - 1].synthetic
    /\ \A s \in Surfaces :
          Cardinality({i \in ListenerFrames :
                          stack[i].target = s /\ stack[i].pc # "L83"}) <= 1
    /\ event # <<>> => /\ Native.transforms <= 1
                       /\ Native.writes <= 1
                       /\ Cardinality(SyntheticSeen) <= 1

\* The nested call, about to return at line 83.
C7_Witness ==
    /\ Len(stack) = 4
    /\ stack[2].fn = "listener" /\ stack[2].pc = "L105"
    /\ stack[3].fn = "dispatchEvent" /\ stack[3].synthetic
    /\ stack[4].fn = "listener" /\ stack[4].pc = "L83"
    /\ stack[4].target = stack[2].target /\ stack[4].id = stack[2].id
    /\ listeners[stack[4].target][stack[4].id]

\* C8: the guard is cleared at the end of every outermost pass, with or
\* without a write: while no call of a textarea's listener is in progress
\* its guard is false.  The nested call that returns at line 83 does not
\* clear the guard of the pass still running.
C8_GuardCleared ==
    /\ \A s \in Surfaces :
          (\A i \in ListenerFrames : stack[i].target # s) =>
              \A id \in DOMAIN listeners[s] : ~listeners[s][id]
    /\ \A i \in ListenerFrames :
          stack[i].pc # "L83" => listeners[stack[i].target][stack[i].id]

\* A pass that wrote nothing has ended and the guard is clear.
C8_Witness ==
    /\ TurnEnd
    /\ Native.value = <<"?">> /\ Native.selectionStart = 1
    /\ Native.transforms = 1 /\ Native.writes = 0
    /\ listeners[Native.target] = <<FALSE>>

---------------------------------------------------------------------------
(* Claims about discovery.                                                 *)

\* The two states of a textarea for the binder.
Unbound(s) == ~enabled[s] /\ listeners[s] = <<>>
Bound(s) == enabled[s] /\ Len(listeners[s]) = 1
\* A step that is a discovery pass: the initial scan of a script, or the
\* callback of an observer.
DiscoveryPass ==
    \/ observing' # observing
    \/ pending' # pending /\ inDocument' = inDocument

\* C9: after any sequence of discovery passes every textarea has at most
\* one listener of the binder; a textarea goes from Unbound to Bound once
\* and stays Bound, with its marker and its listener; and a pass over
\* textareas that are all Bound changes nothing.
C9_IdempotentBinding ==
    /\ [](\A s \in Surfaces : Unbound(s) \/ Bound(s))
    /\ [][\A s \in Surfaces : Bound(s) => Bound(s)']_vars
    /\ [][(DiscoveryPass /\ \A s \in inDocument : Bound(s)) =>
             /\ enabled' = enabled
             /\ listeners' = listeners]_vars

\* Both scripts ran and both textareas are in the document and Bound: the
\* later of the passes found only Bound textareas.
C9_Witness ==
    /\ Idle
    /\ observing = Scripts /\ pending = {}
    /\ inDocument = Surfaces
    /\ \A s \in Surfaces : Bound(s)

\* C10: once a discovery pass has run after the last change of the
\* document (an observer is installed and not every observer still has its
\* callback pending; or a script has just made its initial scan), every
\* textarea in the document is Bound, none of them twice; with the
\* callbacks and the first script scheduled fairly, a textarea in the
\* document is eventually Bound or removed.
C10_DynamicDiscovery ==
    /\ [](observing # {} /\ pending # observing =>
             \A s \in inDocument : Bound(s))
    /\ [](\A s \in Surfaces : Len(listeners[s]) <= 1)
    /\ \A s \in Surfaces :
          (s \in inDocument) ~> (Bound(s) \/ s \notin inDocument)

\* A textarea added after the first script ran, Bound by the callback
\* while the textarea Bound before it still has its one listener.
C10_Witness ==
    /\ Idle
    /\ observing = {"script1"} /\ pending = {}
    /\ inDocument = Surfaces
    /\ \A s \in Surfaces : Bound(s)
    /\ value["textarea1"] # <<>> /\ value["textarea2"] = <<>>

\* Discovery under fair scheduling: the browser runs a queued observer
\* callback, runs the script that main injects (line 178), and lets a
\* started turn run to its end.  The edits are those that leave a caret.
FairNext == Discovery \/ Typing \/ Turn

FairSpec ==
    /\ Init /\ [][FairNext]_vars
    /\ WF_vars(Turn)
    /\ \A k \in Scripts : WF_vars(ObserverCallback(k))
    /\ SF_vars(RunScript("script1"))

---------------------------------------------------------------------------
(* Claims about the table.                                                 *)

Digits == {"0", "1", "2", "3", "4", "5", "6", "7", "8", "9"}
\* The 16 punctuation keys; "U+0060" is the grave accent.
Punctuation == {"U+0060", "~", "_", "+", "=", "[", "{", "]", "}", "\\", "|",
                "<", ".", ">", "/", "?"}
Letters(seq) == {seq[i] : i \in DOMAIN seq}
DeclaredKeys ==
    Letters(LowerCase) \cup Letters(UpperCase) \cup Digits \cup Punctuation

\* C11: the keys of the table are the 26 lower-case letters, the 26
\* upper-case letters, the 10 digits and the 16 punctuation characters, 78
\* keys each written once; "?" is an entry of its own with the value "?",
\* and the backslash is a key of one code unit with the value U+0950.  For
\* an argument of one character, romanToNepali changes it exactly when it
\* is one of these keys other than "?".
C11_KeySet ==
    /\ Keys = DeclaredKeys
    /\ Cardinality(Keys) = 78
    /\ Len(KeyEntries) = 78
    /\ "?" \in Keys /\ keyToNep["?"] = <<"?">>
    /\ "\\" \in Keys /\ keyToNep["\\"] = <<"U+0950">>
    /\ (calls >= 1 /\ Len(input) = 1) =>
          (once # input <=> input[1] \in DeclaredKeys \ {"?"})

C11_Witness ==
    /\ calls >= 1
    /\ input = <<"\\">>
    /\ once = <<"U+0950">>

\* C12: for each of the 26 letters the lower-case and the upper-case key
\* are two entries of the table with different values, and romanToNepali
\* gives the two letters different results.
C12_CaseSensitive ==
    /\ Len(LowerCase) = 26 /\ Len(UpperCase) = 26
    /\ \A i \in DOMAIN LowerCase :
          /\ LowerCase[i] \in Keys /\ UpperCase[i] \in Keys
          /\ \E j, h \in DOMAIN KeyEntries :
                /\ j # h
                /\ KeyEntries[j][1] = LowerCase[i]
                /\ KeyEntries[h][1] = UpperCase[i]
          /\ keyToNep[LowerCase[i]] # keyToNep[UpperCase[i]]
          /\ (calls >= 1 /\ input = <<UpperCase[i]>>) =>
                /\ once = keyToNep[UpperCase[i]]
                /\ once # keyToNep[LowerCase[i]]
          /\ (calls >= 1 /\ input = <<LowerCase[i]>>) =>
                once = keyToNep[LowerCase[i]]

C12_Witness ==
    /\ calls >= 1
    /\ input = <<"K">>
    /\ once = <<"U+0916">>
    /\ keyToNep["k"] = <<"U+0915">>

---------------------------------------------------------------------------
(* Claims about an empty document.                                         *)

\* C13: with no textarea in the document the initial scan and every
\* observer callback bind nothing, and no step uninstalls an observer, so
\* that when a textarea is added the callback of every observer installed
\* is queued, and once one has run the textarea is Bound.
C13_EmptyDocument ==
    /\ [][(DiscoveryPass /\ inDocument = {}) =>
             /\ enabled' = enabled
             /\ listeners' = listeners]_vars
    /\ [][observing \subseteq observing']_vars
    /\ [][(inDocument = {} /\ inDocument' # {}) => pending' = observing]_vars
    /\ [](pending \subseteq observing)
    /\ [](\A s \in inDocument :
             Bound(s) \/ observing = {} \/ pending = observing)

\* Both scripts scanned a document without textareas (no textarea is
\* Bound), both observers are still installed, and the textarea added since
\* has queued both callbacks.
C13_Witness ==
    /\ Idle
    /\ observing = Scripts /\ pending = Scripts
    /\ inDocument = {"textarea2"}
    /\ \A s \in Surfaces : Unbound(s)

---------------------------------------------------------------------------
(* Claims about the order of a pass and about the surfaces apart.          *)

\* The turn of a native event on a bound textarea whose value romanToNepali
\* changes.
Converting ==
    event # <<>> /\ TargetBound /\ romanToNepali(Native.value) # Native.value
\* The calls of the listener made by the native dispatch, not the nested
\* ones.
OuterFrames == {i \in ListenerFrames : \A j \in ListenerFrames : j >= i}
\* The synthetic dispatches in progress.
SyntheticFrames ==
    {i \in DOMAIN stack : stack[i].fn = "dispatchEvent" /\ stack[i].synthetic}
Guard(f) == listeners[f.target][f.id]

\* C14: in a converting pass on the value v with the caret at p the guard
\* is set before the value and the caret are read, the value is written
\* after that, the caret restored after the write, the synthetic event
\* dispatched after the caret is restored and the guard cleared after the
\* dispatch has returned.  One synthetic event is dispatched; the listeners
\* outside the binder receive it with the value romanToNepali(v), the caret
\* at p and the guard set, and receive the native event after it with the
\* guard clear.
C14_Ordering ==
    Converting =>
        LET v == Native.value
            p == Native.selectionStart
            t == Native.target
            sel == <<selectionStart[t], selectionEnd[t]>>
        IN  /\ \A i \in OuterFrames :
                 LET f == stack[i]
                 IN  /\ f.pc = "L83" =>
                           /\ ~Guard(f) /\ Native.transforms = 0
                           /\ value[t] = v
                     /\ f.pc = "L87" =>
                           /\ Guard(f) /\ Native.transforms = 0
                           /\ value[t] = v /\ sel[1] = p
                     /\ f.pc = "L95" =>
                           /\ Guard(f) /\ Native.transforms = 1
                           /\ f.originalValue = v /\ f.cursorPos = p
                           /\ f.nepaliText = romanToNepali(v)
                           /\ value[t] = v /\ Native.writes = 0
                     /\ f.pc = "L98" =>
                           /\ Guard(f) /\ Native.writes = 1
                           /\ value[t] = romanToNepali(v)
                           /\ sel = <<Len(value[t]), Len(value[t])>>
                     /\ f.pc = "L102" =>
                           /\ Guard(f) /\ Native.writes = 1
                           /\ value[t] = romanToNepali(v)
                           /\ sel = <<p, p>>
                     /\ f.pc \in {"L83", "L87", "L95", "L98", "L102"} =>
                           SyntheticSeen = {} /\ SyntheticFrames = {}
                     /\ f.pc = "L105" =>
                           /\ Guard(f) /\ Native.writes = 1
                           /\ value[t] = romanToNepali(v)
                           /\ sel = <<p, p>>
                           /\ Cardinality(SyntheticSeen) +
                              Cardinality(SyntheticFrames) = 1
            /\ \A i \in SyntheticSeen :
                  /\ notified[i].value = romanToNepali(v)
                  /\ notified[i].selectionStart = p
                  /\ notified[i].selectionEnd = p
                  /\ notified[i].isConverting = <<TRUE>>
            /\ TurnEnd =>
                  /\ Len(notified) = 2
                  /\ notified[1].synthetic /\ ~notified[2].synthetic
                  /\ notified[2].value = romanToNepali(v)
                  /\ notified[2].isConverting = <<FALSE>>

\* The page has received the synthetic event of a pass on "ks" with the
\* caret at 0, and the pass is about to clear its guard.
C14_Witness ==
    /\ Len(stack) = 2 /\ Top.fn = "listener" /\ Top.pc = "L105"
    /\ Native.value = <<"k", "s">> /\ Native.selectionStart = 0
    /\ Len(notified) = 1 /\ notified[1].synthetic
    /\ notified[1].value = <<"U+0915", "U+0938">>
    /\ notified[1].selectionStart = 0 /\ notified[1].selectionEnd = 0
    /\ notified[1].isConverting = <<TRUE>>

\* C15: the offset line 98 restores is the selectionStart the edit left,
\* read at line 88 before the write of line 95; the converted value is as
\* long as the original, so the offset lies within it; and once restored
\* the caret has as many code units before it as selectionStart had before
\* the pass, the conversions of those that were there.
C15_CaretStability ==
    event # <<>> =>
        LET v == Native.value
            p == Native.selectionStart
            t == Native.target
        IN  /\ \A i \in ListenerFrames :
                 LET f == stack[i]
                 IN  f.pc \in {"L95", "L98", "L102", "L105"} =>
                        /\ f.cursorPos = p
                        /\ Len(f.nepaliText) = Len(f.originalValue)
                        /\ 0 <= f.cursorPos
                        /\ f.cursorPos <= Len(f.nepaliText)
                        /\ f.pc = "L95" => Native.writes = 0
            /\ \A i \in ListenerFrames :
                  (stack[i].pc \in {"L102", "L105"} /\ Native.writes = 1) =>
                      /\ selectionStart[t] = stack[i].cursorPos
                      /\ selectionEnd[t] = stack[i].cursorPos
            /\ (TurnEnd /\ Native.writes = 1) =>
                  /\ selectionStart[t] = p
                  /\ selectionStart[t] <= Len(value[t])
                  /\ SubSeq(value[t], 1, selectionStart[t]) =
                        romanToNepali(SubSeq(v, 1, p))

\* The edit left "ks" with the selection 1..2; the pass has ended with the
\* caret at 1, after the conversion of "k".
C15_Witness ==
    /\ TurnEnd /\ Native.writes = 1
    /\ Native.value = <<"k", "s">>
    /\ Native.selectionStart = 1 /\ Native.selectionEnd = 2
    /\ selectionStart[Native.target] = 1
    /\ selectionEnd[Native.target] = 1
    /\ SubSeq(value[Native.target], 1, 1) = <<"U+0915">>

\* C16: each listener has its own guard.  A step of the turn of an event
\* on textarea A, the synthetic dispatch included, leaves the value, the
\* selection, the guard and the marker of every other textarea B as they
\* are; every call on the stack is a call on A, so B's listener is not
\* called; B's guard is false while A's is set; and a native event on a
\* bound textarea is always converted once, so no earlier pass on another
\* textarea has left its listener suppressed.
C16_Isolation ==
    /\ [][event # <<>> =>
            \A s \in Surfaces \ {Native.target} :
                /\ value'[s] = value[s]
                /\ selectionStart'[s] = selectionStart[s]
                /\ selectionEnd'[s] = selectionEnd[s]
                /\ listeners'[s] = listeners[s]
                /\ enabled'[s] = enabled[s]]_vars
    /\ [](event # <<>> =>
            /\ \A i \in DOMAIN stack : stack[i].target = Native.target
            /\ \A s \in Surfaces \ {Native.target} :
                  \A id \in DOMAIN listeners[s] : ~listeners[s][id]
            /\ (TurnEnd /\ TargetBound) => Native.transforms = 1)

\* A pass on textarea1 has its guard set and is about to dispatch the
\* synthetic event; textarea2 is bound and holds a value converted before,
\* its guard clear.
C16_Witness ==
    /\ Len(stack) = 2 /\ InListener("L102")
    /\ Native.target = "textarea1"
    /\ listeners["textarea1"] = <<TRUE>>
    /\ Bound("textarea2")
    /\ value["textarea2"] = <<"U+0915">>
    /\ selectionStart["textarea2"] = 1
    /\ listeners["textarea2"] = <<FALSE>>

---------------------------------------------------------------------------
(* Claims about what follows from the binder as a whole.                   *)

\* v is a fixed point of romanToNepali; v holds no key but '?'.
FixedPoint(v) == romanToNepali(v) = v
NoKeyButQuestion(v) == \A i \in DOMAIN v : v[i] \in Keys => v[i] = "?"

\* C17 as stated: whenever no turn is in progress the value of a bound
\* textarea is a fixed point of romanToNepali.
C17_Original ==
    Idle => \A s \in Surfaces : Bound(s) => FixedPoint(value[s])

\* C17: a turn of an edit of a bound textarea ends with a value that is a
\* fixed point of romanToNepali, one that holds no key of the table but
\* '?'; the end of the turn does not change it, nor does a step outside of
\* a turn, a discovery pass included; and a bound textarea stays bound.  So
\* from the first edit of a bound textarea on its value is a fixed point
\* whenever no turn is in progress.  The value a textarea held when it was
\* bound stays as it was until that first edit.
C17_FixedPoint ==
    /\ []((TurnEnd /\ TargetBound) =>
            /\ FixedPoint(value[Native.target])
            /\ NoKeyButQuestion(value[Native.target]))
    /\ [][TurnEnd => (Idle' /\ value' = value)]_vars
    /\ [][(Idle /\ Idle') => value' = value]_vars
    /\ [][\A s \in Surfaces : Bound(s) => Bound(s)']_vars
    /\ [](\A s \in Surfaces :
            FixedPoint(value[s]) <=> NoKeyButQuestion(value[s]))

\* Both textareas are bound and hold what their passes left: the
\* conversion of "ks", and "?".
C17_Witness ==
    /\ Idle /\ pending = {}
    /\ \A s \in Surfaces : Bound(s)
    /\ value["textarea1"] = <<"U+0915", "U+0938">>
    /\ value["textarea2"] = <<"?">>

\* C18: in every state a textarea carries the marker if and only if one
\* listener of the binder is attached to it, and none has two, whichever
\* of the script instances (one per call of inject_custom_keyboard, each
\* with its initial scan and its observer on the same document) ran its
\* passes and in whichever order.  A step attaches a listener only to a
\* textarea of the document that has no marker, and sets the marker in the
\* same step; no step removes a marker or a listener.
C18_MarkerListener ==
    /\ [](\A s \in Surfaces :
            /\ enabled[s] <=> Len(listeners[s]) = 1
            /\ Len(listeners[s]) <= 1)
    /\ [][\A s \in Surfaces :
            /\ Len(listeners'[s]) >= Len(listeners[s])
            /\ enabled[s] => enabled'[s]
            /\ Len(listeners'[s]) # Len(listeners[s]) =>
                  /\ ~enabled[s] /\ enabled'[s]
                  /\ s \in inDocument
                  /\ Len(listeners'[s]) = Len(listeners[s]) + 1]_vars

\* Two instances observe the document; the callback of the first has bound
\* the textareas, that of the second is still queued and will find them
\* marked.
C18_Witness ==
    /\ Idle
    /\ observing = Scripts /\ pending = {"script2"}
    /\ inDocument = Surfaces
    /\ \A s \in Surfaces : enabled[s] /\ Len(listeners[s]) = 1

\* A step the binder does not make: the page changes the document, or the
\* user edits a textarea.
External ==
    \/ inDocument' # inDocument
    \/ event = <<>> /\ event' # <<>>

\* C19: the binder queues no callback of an observer.  A step of a turn,
\* the write of line 95 included, leaves the queued callbacks as they are; the
\* initial scan of a script queues none; an observer callback, a bind of
\* line 77 included, takes its own record from the queue and adds none.
\* Only a change of the document queues callbacks.  So when the page stops
\* changing the document and the user stops editing, a state is reached
\* from which on no turn is in progress and no callback is queued.
C19_NoSelfTrigger ==
    /\ [][(event # <<>> \/ event' # <<>>) => pending' = pending]_vars
    /\ [][observing' # observing => pending' = pending]_vars
    /\ [][(Idle /\ Idle' /\ inDocument' = inDocument
              /\ observing' = observing) =>
             (pending' \subseteq pending /\ pending' # pending)]_vars
    /\ [][pending' \ pending # {} => inDocument' # inDocument]_vars
    /\ ([]<><<External>>_vars) \/ <>[](Idle /\ pending = {})

\* Two observers are installed; a callback has bound textarea2 and a pass
\* has written its value, and no callback is queued.
C19_Witness ==
    /\ TurnEnd /\ Native.writes = 1
    /\ Native.target = "textarea2"
    /\ observing = Scripts /\ pending = {}
    /\ inDocument = {"textarea2"}
    /\ Unbound("textarea1") /\ Bound("textarea2")

=============================================================================
